---- MODULE Spec2Model ----
(***************************************************************************)
(* MG SAIC integration: the config-entry wiring of __init__.py and the     *)
(* message polling of message_handler.py (SAICMGMessageHandler).           *)
(*                                                                         *)
(* The specifications share the variables:                                 *)
(*   Spec         the periodic poll of one message handler against a       *)
(*                server whose alarm list grows between polls;             *)
(*   SpecExpire   Spec, with messages also leaving the server's list;      *)
(*   SpecOverlap  two polls of the handler interleaved at their awaits;    *)
(*   SpecSetup    async_setup_entry / async_unload_entry on hass.data.     *)
(***************************************************************************)
EXTENDS Integers, Sequences, FiniteSets, TLC

\* ------------------------------------------------------------------ bounds
MaxTime == 2        \* message_time values are 1..MaxTime
MaxServer == 2      \* messages the server's alarm list holds at most
NumEntries == 3     \* config entries of the account

\* ---------------------------------------------------------------- encoding
None == "None"                       \* Python None for a messageId
DatetimeMin == 0               \* datetime.min, below every message_time
PageCap == MaxServer + 3       \* requests the model follows in one call
RefreshCap == 2                \* refresh_count saturates here

MessageIds == {"m1", "m2", "m3"}
Ids == MessageIds \cup {None}
Times == 1..MaxTime
Vins == {"vinA", "vinB", "vinC"}
Entries == 1..NumEntries
MessageTypes == {"323", "other"}
ReadStatuses == {"read", "unread"}

\* MessageEntity, the fields the handler reads
Message ==
  [messageId : Ids, messageType : MessageTypes, message_time : Times,
   vin : Vins, read_status : ReadStatuses]

\* The messages the cloud files: a vehicle start message of either vehicle of
\* the account, an alarm of another type, and a vehicle start message that
\* has no id and names a vehicle whose entry is not set up.
Catalogue ==
  {m \in Message :
     /\ m.read_status = "unread"
     /\ \/ m.messageId = "m1" /\ m.messageType = "323" /\ m.vin = "vinA"
        \/ m.messageId = "m2" /\ m.messageType = "323" /\ m.vin = "vinB"
        \/ m.messageId = "m3" /\ m.messageType = "other" /\ m.vin = "vinA"
        \/ m.messageId = None /\ m.messageType = "323" /\ m.vin = "vinC"}

NoMsg ==
  [messageId |-> None, messageType |-> "", message_time |-> DatetimeMin,
   vin |-> "", read_status |-> ""]

VARIABLES
  \* hass.data[DOMAIN] and the platform's view of the entries
  loaded,               \* entries whose async_setup_entry returned True
  hass_data,            \* keys present in hass.data[DOMAIN]
  coordinators_by_vin,  \* keys of hass.data[DOMAIN]["coordinators_by_vin"]
  timers,               \* async_track_time_interval registrations
  services_registered,  \* async_setup_services done, not yet unloaded
  \* SAICMGMessageHandler
  last_message_ts,
  last_message_id,
  first_call,
  \* the cloud's alarm list, in the order get_alarm_list pages through it
  server,
  \* history of the most recent poll
  snapshot,             \* server and handler state when the poll began
  calls,                \* calls the poll issued, in order
  refresh_count,        \* refresh requests caused so far, per (id, time)
  baseline,             \* SpecExpire: (id, time) of the messages on the server
                        \* at the first poll that fetched successfully
  tasks                 \* SpecOverlap: the position and locals of each poll

vars ==
  <<loaded, hass_data, coordinators_by_vin, timers, services_registered,
    last_message_ts, last_message_id, first_call, server, snapshot, calls,
    refresh_count, baseline, tasks>>

setupVars ==
  <<loaded, hass_data, coordinators_by_vin, timers, services_registered>>

handlerVars == <<last_message_ts, last_message_id, first_call>>

pollVars == <<server, snapshot, calls, refresh_count, baseline, tasks>>

\* ----------------------------------------------------------------- helpers
Call(op, page, msg, raised) ==
  [op |-> op, page |-> page, msg |-> msg, raised |-> raised]

\* no poll has run since the timer callback last returned
NoSnapshot ==
  [polled |-> FALSE, server |-> <<>>, last_message_id |-> None,
   last_message_ts |-> DatetimeMin, first_call |-> TRUE, fetched |-> FALSE]

\* __get_latest_message: Python's max with a key returns the first of the
\* elements with the greatest key; NoMsg stands for None
GetLatestMessage(messages) ==
  IF Len(messages) = 0 THEN NoMsg
  ELSE messages[CHOOSE i \in 1..Len(messages) :
                  /\ \A j \in 1..Len(messages) :
                       messages[j].message_time <= messages[i].message_time
                  /\ \A j \in 1..(i - 1) :
                       messages[j].message_time < messages[i].message_time]

\* __get_oldest_message: min with a key, the first of the least
GetOldestMessage(messages) ==
  IF Len(messages) = 0 THEN NoMsg
  ELSE messages[CHOOSE i \in 1..Len(messages) :
                  /\ \A j \in 1..Len(messages) :
                       messages[j].message_time >= messages[i].message_time
                  /\ \A j \in 1..(i - 1) :
                       messages[j].message_time > messages[i].message_time]

\* client.get_alarm_list(page_num=idx, page_size=1) on the list srv
GetAlarmList(srv, idx) ==
  IF idx \in 1..Len(srv) THEN <<srv[idx]>> ELSE <<>>

\* faulty variant of PageHasMessages: an empty page is not told apart
PageHasMessagesAlways(page) == TRUE

\* the page carries messages (message_handler.py lines 92-96)
PageHasMessages(page) == Len(page) > 0

\* faulty variant of ReachedOldest: the watermark never ends the loop
ReachedOldestNever(messages, ts) == FALSE

\* faulty variant of ReachedOldest: the comparison is the wrong way round
ReachedOldestInverted(messages, ts) ==
  LET oldest_message == GetOldestMessage(messages)
  IN oldest_message # NoMsg /\ oldest_message.message_time > ts

\* the oldest message fetched is older than the watermark (lines 101-105)
ReachedOldest(messages, ts) ==
  LET oldest_message == GetOldestMessage(messages)
  IN oldest_message # NoMsg /\ oldest_message.message_time < ts

\* faulty variant of OnPageError: the pages fetched so far are returned
OnPageErrorPartial(all_messages, idx) ==
  [ok |-> TRUE, messages |-> all_messages,
   calls |-> <<Call("get_alarm_list", idx, NoMsg, TRUE)>>]

\* the request of page idx raises: None is returned (lines 108-110)
OnPageError(all_messages, idx) ==
  [ok |-> FALSE, messages |-> <<>>,
   calls |-> <<Call("get_alarm_list", idx, NoMsg, TRUE)>>]

RECURSIVE Paginate(_, _, _, _, _, _)
\* the while loop of get_all_alarm_messages from page idx on; n requests were
\* made before. failAt is the page whose request raises (0: none does).
Paginate(srv, ts, failAt, idx, n, all_messages) ==
  LET message_list == GetAlarmList(srv, idx)
      got == IF message_list = <<>> THEN NoMsg ELSE message_list[1]
  IN
  IF n >= PageCap
  THEN [ok |-> FALSE, messages |-> <<>>, calls |-> <<>>]
  ELSE IF idx = failAt
  THEN OnPageError(all_messages, idx)
  ELSE IF PageHasMessages(message_list)
  THEN LET extended == all_messages \o message_list
       IN IF ReachedOldest(extended, ts)
          THEN [ok |-> TRUE, messages |-> extended,
                calls |-> <<Call("get_alarm_list", idx, got, FALSE)>>]
          ELSE LET rest == Paginate(srv, ts, failAt, idx + 1, n + 1, extended)
               IN [rest EXCEPT
                     !.calls = <<Call("get_alarm_list", idx, got, FALSE)>> \o @]
  ELSE [ok |-> TRUE, messages |-> all_messages,
        calls |-> <<Call("get_alarm_list", idx, got, FALSE)>>]

\* get_all_alarm_messages: ok FALSE stands for the None it returns on error
GetAllAlarmMessages(srv, ts, failAt) == Paginate(srv, ts, failAt, 1, 0, <<>>)

\* faulty variant of IsNewLatest: the timestamps are not compared
IsNewLatestIgnoringTime(latest_message, id, ts) ==
  /\ latest_message # NoMsg
  /\ latest_message.messageId # id

\* the newest message is taken as new (lines 39-43)
IsNewLatest(latest_message, id, ts) ==
  /\ latest_message # NoMsg
  /\ latest_message.messageId # id
  /\ latest_message.message_time > ts

\* faulty variant of VehicleStartMessages: the messageType is not tested
VehicleStartMessagesAnyType(all_messages, id) ==
  SelectSeq(all_messages, LAMBDA m : m.messageId # id)

\* the messages the poll deletes (lines 70-74)
VehicleStartMessages(all_messages, id) ==
  SelectSeq(all_messages,
            LAMBDA m : m.messageType = "323" /\ m.messageId # id)

\* faulty variant of NewMessages: the read_status is not tested
NewMessagesAll(all_messages) == all_messages

\* the messages the poll marks as read (line 32)
NewMessages(all_messages) ==
  SelectSeq(all_messages, LAMBDA m : m.read_status # "read")

\* read_message / __delete_message: the client is called when the id is set
HasId(m) == m.messageId # None

\* faulty variant of MapCalls: a call that raises ends the loop
MapCallsAborting(op, messages, raising) ==
  LET n == IF \E i \in 1..Len(messages) : i \in raising
           THEN CHOOSE i \in 1..Len(messages) :
                  i \in raising /\ \A j \in 1..(i - 1) : j \notin raising
           ELSE Len(messages)
  IN [i \in 1..n |-> Call(op, 0, messages[i], i \in raising)]

\* the client calls for messages, one each in order; the calls whose position
\* is in raising raise, and the loop goes on (lines 127-128, 139-140)
MapCalls(op, messages, raising) ==
  [i \in 1..Len(messages) |-> Call(op, 0, messages[i], i \in raising)]

\* faulty variant of PollCalls: the stale messages are deleted first
PollCallsDeleteFirst(readCalls, compareCall, refreshCalls, deleteCalls) ==
  readCalls \o deleteCalls \o compareCall \o refreshCalls

\* the calls of a poll after the fetch, in the order of lines 34-76
PollCalls(readCalls, compareCall, refreshCalls, deleteCalls) ==
  readCalls \o compareCall \o refreshCalls \o deleteCalls

\* ids of the calls named op that went through
DoneIds(cs, op) ==
  {cs[i].msg.messageId : i \in {j \in 1..Len(cs) : cs[j].op = op /\ ~cs[j].raised}}

\* the server's list after read_message / delete_message went through for ids
ServerAfter(srv, readIds, deletedIds) ==
  LET kept == SelectSeq(srv, LAMBDA m : m.messageId \notin deletedIds)
  IN [i \in 1..Len(kept) |->
        IF kept[i].messageId \in readIds
        THEN [kept[i] EXCEPT !.read_status = "read"]
        ELSE kept[i]]

RefreshKeys == Ids \X Times

\* the polls that can be in flight at once, and a poll that is not running
Tasks == {"poll1", "poll2"}

IdleTask ==
  [pc |-> "idle", idx |-> 0, all_messages |-> <<>>, pending |-> <<>>,
   latest_message |-> NoMsg, polls |-> 0]

Bump(count, key) ==
  [count EXCEPT ![key] = IF @ < RefreshCap THEN @ + 1 ELSE @]

\* entry.data["vin"]: the first entries are the vehicles that get messages
VinNames == <<"vinA", "vinB", "vinC", "vinD", "vinE">>

EntryVin(e) == VinNames[e]

\* the calls that can raise during one poll: <<op, k>> is the k-th call of op
\* (the request of the first or second page, the first read, the first
\* delete, the refresh request)
FaultPoints ==
  ({"get_alarm_list"} \X {1, 2})
    \cup ({"read_message", "delete_message", "async_request_refresh"} \X {1})

\* at most one call raises during one poll
FaultSets == {{}} \cup {{f} : f \in FaultPoints}

\* the first page whose request raises, 0 if none does
FailingPage(faults) ==
  LET pages == {k \in {1, 2} : <<"get_alarm_list", k>> \in faults}
  IN IF pages = {} THEN 0 ELSE CHOOSE k \in pages : \A j \in pages : k <= j

Raising(faults, op) == {f[2] : f \in {g \in faults : g[1] = op}}

\* ------------------------------------------------------------ polling: Spec
\* The entries of two vehicles are set up: the handler exists, its timer runs.
Init ==
  /\ coordinators_by_vin = {"vinA", "vinB"}
  /\ loaded = {e \in Entries : EntryVin(e) \in coordinators_by_vin}
  /\ hass_data =
       {<<"client", e>> : e \in loaded} \cup {<<"coordinator", e>> : e \in loaded}
         \cup {<<"coordinators_by_vin", 0>>, <<"message_handler", 0>>}
  /\ timers = 1
  /\ services_registered = TRUE
  /\ last_message_ts = DatetimeMin
  /\ last_message_id = None
  /\ first_call = TRUE
  /\ server = <<>>
  /\ snapshot = NoSnapshot
  /\ calls = <<>>
  /\ refresh_count = [k \in RefreshKeys |-> 0]
  /\ baseline = {}
  /\ tasks = [t \in Tasks |-> IdleTask]

\* the cloud files a new, unread alarm message at the head of the list
Arrive(m) ==
  /\ ~snapshot.polled
  /\ Len(server) < MaxServer
  /\ server' = <<m>> \o server
  /\ UNCHANGED <<setupVars, handlerVars, snapshot, calls, refresh_count, tasks>>

\* _check_messages: the timer fires and check_for_new_messages runs
CheckForNewMessages(faults) ==
  /\ timers > 0
  /\ ~snapshot.polled
  /\ LET f == GetAllAlarmMessages(server, last_message_ts, FailingPage(faults))
         readRaises == Raising(faults, "read_message")
         deleteRaises == Raising(faults, "delete_message")
         refreshRaises == 1 \in Raising(faults, "async_request_refresh")
         all_messages == f.messages
         new_messages == NewMessages(all_messages)
         readCalls == MapCalls("read_message", SelectSeq(new_messages, HasId), readRaises)
         latest_message == GetLatestMessage(all_messages)
         isNew == IsNewLatest(latest_message, last_message_id, last_message_ts)
         id == IF isNew THEN latest_message.messageId ELSE last_message_id
         ts == IF isNew THEN latest_message.message_time ELSE last_message_ts
         refresh == isNew /\ ~first_call /\ latest_message.vin \in coordinators_by_vin
         refreshCalls ==
           IF refresh
           THEN <<Call("async_request_refresh", 0, latest_message, refreshRaises)>>
           ELSE <<>>
         vehicle_start_messages == VehicleStartMessages(all_messages, id)
         deleteCalls ==
           MapCalls("delete_message", SelectSeq(vehicle_start_messages, HasId),
                    deleteRaises)
         issued ==
           f.calls \o PollCalls(readCalls,
                                <<Call("compare", 0, latest_message, FALSE)>>,
                                refreshCalls, deleteCalls)
     IN
     /\ snapshot' =
          [polled |-> TRUE, server |-> server, last_message_id |-> last_message_id,
           last_message_ts |-> last_message_ts, first_call |-> first_call,
           fetched |-> f.ok]
     /\ IF f.ok
        THEN /\ calls' = issued
             /\ last_message_id' = id
             /\ last_message_ts' = ts
             /\ first_call' = FALSE
             /\ server' =
                  ServerAfter(server, DoneIds(issued, "read_message"),
                              DoneIds(issued, "delete_message"))
             /\ refresh_count' =
                  IF refresh
                  THEN Bump(refresh_count,
                            <<latest_message.messageId, latest_message.message_time>>)
                  ELSE refresh_count
        ELSE /\ calls' = f.calls
             /\ UNCHANGED <<handlerVars, server, refresh_count>>
  /\ UNCHANGED <<setupVars, tasks>>

\* _check_messages returns: the history of the poll is dropped
CheckMessagesReturns ==
  /\ snapshot.polled
  /\ snapshot' = NoSnapshot
  /\ calls' = <<>>
  /\ UNCHANGED <<setupVars, handlerVars, server, refresh_count, tasks>>

Next ==
  \/ \E m \in Catalogue : Arrive(m) /\ UNCHANGED baseline
  \/ \E faults \in FaultSets : CheckForNewMessages(faults) /\ UNCHANGED baseline
  \/ CheckMessagesReturns /\ UNCHANGED baseline

Spec == Init /\ [][Next]_vars

\* ----------------------------------------- leaving messages: SpecExpire
\* what tells one message of the server from another
MessageKey(m) == <<m.messageId, m.message_time>>

\* the cloud drops the i-th message of the list (it is removed in the
\* vendor's app, or it ages out)
Expire(i) ==
  /\ ~snapshot.polled
  /\ i \in 1..Len(server)
  /\ server' = SubSeq(server, 1, i - 1) \o SubSeq(server, i + 1, Len(server))
  /\ UNCHANGED <<setupVars, handlerVars, snapshot, calls, refresh_count,
                 baseline, tasks>>

\* a message that arrives later is not one of the first fetch
ArriveLater(m) ==
  /\ MessageKey(m) \notin baseline
  /\ Arrive(m)
  /\ UNCHANGED baseline

\* the poll; the first one whose fetch succeeds records what was on the server
CheckForNewMessagesFirst(faults) ==
  /\ CheckForNewMessages(faults)
  /\ baseline' =
       IF first_call /\ snapshot'.fetched
       THEN {MessageKey(server[i]) : i \in 1..Len(server)}
       ELSE baseline

NextExpire ==
  \/ \E m \in Catalogue : ArriveLater(m)
  \/ \E i \in 1..MaxServer : Expire(i)
  \/ \E faults \in FaultSets : CheckForNewMessagesFirst(faults)
  \/ CheckMessagesReturns /\ UNCHANGED baseline

SpecExpire == Init /\ [][NextExpire]_vars

\* ------------------------------------------ overlapping polls: SpecOverlap
\* check_for_new_messages is a coroutine: it gives way at every await (the
\* client calls and the refresh), and the timer starts the next poll whether
\* or not the last one has returned.  Each action below is the code between
\* two awaits; tasks[t] holds the locals of poll t.
Running(t) == tasks[t].pc # "idle"

SetTask(t, rec) == [tasks EXCEPT ![t] = rec]

\* the poll has returned; polls counts the polls started in its place
Returned(self) == [IdleTask EXCEPT !.polls = self.polls]

PollsStarted == tasks["poll1"].polls + tasks["poll2"].polls

\* the timer fires twice: one poll after the other, or the second poll while
\* the first is suspended
MaxPolls == Cardinality(Tasks)

\* the delete loop's list, built from last_message_id as it is when the loop
\* is reached (lines 70-74)
DeleteList(all_messages, id) ==
  SelectSeq(VehicleStartMessages(all_messages, id), HasId)

\* _check_messages: the timer fires; poll2 is the poll that starts while
\* poll1 is still running
TimerFires(t) ==
  /\ timers > 0
  /\ ~Running(t)
  /\ t = "poll2" => Running("poll1")
  /\ PollsStarted < MaxPolls
  /\ tasks' = SetTask(t, [tasks[t] EXCEPT !.pc = "fetch", !.idx = 1,
                                          !.polls = tasks[t].polls + 1])
  /\ UNCHANGED <<setupVars, handlerVars, server, snapshot, calls,
                 refresh_count, baseline>>

\* get_all_alarm_messages: one turn of the loop (lines 87-112)
GetAlarmListReturns(t, raises) ==
  LET self == tasks[t]
      page == GetAlarmList(server, self.idx)
      all_messages == self.all_messages \o page
      returned ==
        [self EXCEPT !.pc = "read", !.all_messages = all_messages,
                     !.pending = SelectSeq(NewMessages(all_messages), HasId)]
  IN
  /\ self.pc = "fetch"
  /\ tasks' =
       IF raises THEN SetTask(t, Returned(self))
       ELSE IF ~PageHasMessages(page) \/ ReachedOldest(all_messages, last_message_ts)
       THEN SetTask(t, returned)
       ELSE SetTask(t, [self EXCEPT !.idx = self.idx + 1,
                                    !.all_messages = all_messages])
  /\ UNCHANGED <<setupVars, handlerVars, server, snapshot, calls,
                 refresh_count, baseline>>

\* read_message for the next unread message (lines 34-36, 114-128)
ReadMessage(t) ==
  LET self == tasks[t] IN
  /\ self.pc = "read"
  /\ self.pending # <<>>
  /\ server' = ServerAfter(server, {Head(self.pending).messageId}, {})
  /\ tasks' = SetTask(t, [self EXCEPT !.pending = Tail(self.pending)])
  /\ UNCHANGED <<setupVars, handlerVars, snapshot, calls, refresh_count,
                 baseline>>

\* lines 38-46 and 50-54: no await between the comparison, the assignment
\* and the test of first_call; without a refresh the delete loop is reached
CompareAndAssign(t) ==
  LET self == tasks[t]
      latest_message == GetLatestMessage(self.all_messages)
      isNew == IsNewLatest(latest_message, last_message_id, last_message_ts)
      refresh == isNew /\ ~first_call /\ latest_message.vin \in coordinators_by_vin
      id == IF isNew THEN latest_message.messageId ELSE last_message_id
  IN
  /\ self.pc = "read"
  /\ self.pending = <<>>
  /\ last_message_id' = id
  /\ last_message_ts' = IF isNew THEN latest_message.message_time ELSE last_message_ts
  /\ tasks' =
       IF refresh
       THEN SetTask(t, [self EXCEPT !.pc = "refresh",
                                    !.latest_message = latest_message])
       ELSE SetTask(t, [self EXCEPT !.pc = "delete",
                                    !.latest_message = latest_message,
                                    !.pending = DeleteList(self.all_messages, id)])
  /\ UNCHANGED <<setupVars, first_call, server, snapshot, calls, refresh_count,
                 baseline>>

\* coordinator.async_request_refresh returns or raises (lines 55-65); the
\* delete loop's list is built from last_message_id as it is by then
AsyncRequestRefresh(t) ==
  LET self == tasks[t] IN
  /\ self.pc = "refresh"
  /\ refresh_count' = Bump(refresh_count, MessageKey(self.latest_message))
  /\ tasks' = SetTask(t, [self EXCEPT !.pc = "delete",
                                      !.pending =
                                        DeleteList(self.all_messages,
                                                   last_message_id)])
  /\ UNCHANGED <<setupVars, handlerVars, server, snapshot, calls, baseline>>

\* __delete_message for the next stale vehicle start message (lines 75-76)
DeleteMessage(t) ==
  LET self == tasks[t] IN
  /\ self.pc = "delete"
  /\ self.pending # <<>>
  /\ server' = ServerAfter(server, {}, {Head(self.pending).messageId})
  /\ tasks' = SetTask(t, [self EXCEPT !.pending = Tail(self.pending)])
  /\ UNCHANGED <<setupVars, handlerVars, snapshot, calls, refresh_count,
                 baseline>>

\* line 78, and the poll returns
EndPoll(t) ==
  LET self == tasks[t] IN
  /\ self.pc = "delete"
  /\ self.pending = <<>>
  /\ first_call' = FALSE
  /\ tasks' = SetTask(t, Returned(self))
  /\ UNCHANGED <<setupVars, last_message_ts, last_message_id, server, snapshot,
                 calls, refresh_count, baseline>>

\* the messages of one vehicle that carry an id
OverlapCatalogue == {m \in Catalogue : HasId(m) /\ m.vin = "vinA"}

\* the first poll has run, on an empty list: first_call is False and the
\* watermark is still None / datetime.min
InitOverlap ==
  /\ coordinators_by_vin = {"vinA", "vinB"}
  /\ loaded = {e \in Entries : EntryVin(e) \in coordinators_by_vin}
  /\ hass_data =
       {<<"client", e>> : e \in loaded} \cup {<<"coordinator", e>> : e \in loaded}
         \cup {<<"coordinators_by_vin", 0>>, <<"message_handler", 0>>}
  /\ timers = 1
  /\ services_registered = TRUE
  /\ last_message_ts = DatetimeMin
  /\ last_message_id = None
  /\ first_call = FALSE
  /\ server = <<>>
  /\ snapshot = NoSnapshot
  /\ calls = <<>>
  /\ refresh_count = [k \in RefreshKeys |-> 0]
  /\ baseline = {}
  /\ tasks = [t \in Tasks |-> IdleTask]

\* the cloud files a message that is no older than the ones it holds
ArriveNewest(m) ==
  /\ \A i \in 1..Len(server) : m.message_time >= server[i].message_time
  /\ Arrive(m)
  /\ UNCHANGED baseline

NextOverlap ==
  \/ \E m \in OverlapCatalogue : ArriveNewest(m)
  \/ \E t \in Tasks :
       \/ TimerFires(t)
       \/ \E raises \in BOOLEAN : GetAlarmListReturns(t, raises)
       \/ ReadMessage(t)
       \/ CompareAndAssign(t)
       \/ AsyncRequestRefresh(t)
       \/ DeleteMessage(t)
       \/ EndPoll(t)

SpecOverlap == InitOverlap /\ [][NextOverlap]_vars

\* ---------------------------------------------- entry lifecycle: SpecSetup
ClientKey(e) == <<"client", e>>                  \* hass.data[DOMAIN][entry_id]
CoordinatorKey(e) == <<"coordinator", e>>        \* f"{entry_id}_coordinator"
ByVinKey == <<"coordinators_by_vin", 0>>
HandlerKey == <<"message_handler", 0>>

\* where async_setup_entry leaves: before it stored anything (login, the VIN
\* checks), in coordinator.async_setup, in the platform setup, in
\* async_setup_services, or at its end
SetupOutcomes ==
  {"rejected", "coordinator_fails", "platforms_fail", "services_fail", "ok"}

\* faulty variant of HandlerMissing: every set-up entry creates a handler
HandlerMissingAlways(data) == TRUE

\* no handler is set up yet (__init__.py line 70)
HandlerMissing(data) == HandlerKey \notin data

\* no more entries (__init__.py line 104)
DataEmpty(data) == data = {}

\* nothing is set up
InitSetup ==
  /\ loaded = {}
  /\ hass_data = {}
  /\ coordinators_by_vin = {}
  /\ timers = 0
  /\ services_registered = FALSE
  /\ last_message_ts = DatetimeMin
  /\ last_message_id = None
  /\ first_call = TRUE
  /\ server = <<>>
  /\ snapshot = NoSnapshot
  /\ calls = <<>>
  /\ refresh_count = [k \in RefreshKeys |-> 0]
  /\ baseline = {}
  /\ tasks = [t \in Tasks |-> IdleTask]

AsyncSetupEntry(e, outcome) ==
  /\ e \notin loaded
  /\ LET stored ==
           IF outcome = "rejected" THEN hass_data
           ELSE IF outcome = "coordinator_fails" THEN hass_data \cup {ClientKey(e)}
           ELSE hass_data \cup {ClientKey(e), CoordinatorKey(e), ByVinKey}
         create == outcome = "ok" /\ HandlerMissing(stored)
     IN
     /\ hass_data' = IF create THEN stored \cup {HandlerKey} ELSE stored
     /\ coordinators_by_vin' =
          IF outcome \in {"platforms_fail", "services_fail", "ok"}
          THEN coordinators_by_vin \cup {EntryVin(e)}
          ELSE coordinators_by_vin
     /\ services_registered' = (services_registered \/ outcome = "ok")
     /\ timers' = IF create THEN timers + 1 ELSE timers
     /\ loaded' = IF outcome = "ok" THEN loaded \cup {e} ELSE loaded
     /\ IF create
        THEN /\ last_message_ts' = DatetimeMin
             /\ last_message_id' = None
             /\ first_call' = TRUE
        ELSE UNCHANGED handlerVars
  /\ UNCHANGED pollVars

AsyncUnloadEntry(e, unload_ok) ==
  /\ e \in loaded
  /\ IF unload_ok
     THEN /\ hass_data' = hass_data \ {ClientKey(e)}
          /\ services_registered' =
               IF DataEmpty(hass_data') THEN FALSE ELSE services_registered
          /\ loaded' = loaded \ {e}
     ELSE UNCHANGED <<hass_data, services_registered, loaded>>
  /\ UNCHANGED <<coordinators_by_vin, timers, handlerVars, pollVars>>

NextSetup ==
  \/ \E e \in Entries, outcome \in SetupOutcomes : AsyncSetupEntry(e, outcome)
  \/ \E e \in Entries, unload_ok \in BOOLEAN : AsyncUnloadEntry(e, unload_ok)

SpecSetup == InitSetup /\ [][NextSetup]_vars

\* ------------------------------------------------- reading a poll's history
CallsOf(op) == SelectSeq(calls, LAMBDA c : c.op = op)

PageCalls == CallsOf("get_alarm_list")
RefreshCalls == CallsOf("async_request_refresh")
DeleteCalls == CallsOf("delete_message")

Range(s) == {s[i] : i \in 1..Len(s)}

\* the messages the pages of the poll returned
Fetched == {c.msg : c \in {d \in Range(PageCalls) : ~d.raised /\ d.msg # NoMsg}}

\* a poll after the first completed one whose fetch succeeded
LaterPollDone == snapshot.polled /\ snapshot.fetched /\ ~snapshot.first_call

\* ------------------------------------------------------------------- claims

\* C1: across any sequence of polls, successful or failing, last_message_ts
\* never decreases: every step that changes it strictly increases it.
MonotonicWatermark == [][last_message_ts' >= last_message_ts]_vars

\* C1 witness: a poll has advanced a watermark that an earlier poll had set
WatermarkAdvancedTwice ==
  /\ snapshot.polled
  /\ snapshot.last_message_ts > DatetimeMin
  /\ last_message_ts > snapshot.last_message_ts

\* C2: every refresh request of a poll is caused by a vehicle start message
\* (messageType "323"); a newest message of another type causes none.
RefreshOnlyForVehicleStart ==
  \A c \in Range(RefreshCalls) : c.msg.messageType = "323"

\* C3: a given message (messageId, message_time) causes at most one refresh
\* request, however many later polls return it again.
RefreshAtMostOncePerMessage == \A k \in RefreshKeys : refresh_count[k] <= 1

\* C3 witness: a later poll fetched a message that had caused a refresh before
\* and requested no refresh
RefreshedMessageFetchedAgain ==
  /\ LaterPollDone
  /\ RefreshCalls = <<>>
  /\ \E m \in Fetched : refresh_count[<<m.messageId, m.message_time>>] = 1

\* C4: in every poll after the first completed one, every vehicle that has a
\* coordinator and a fetched vehicle start message newer than the stored
\* watermark has its coordinator asked to refresh during that poll.
RefreshForEveryVehicle ==
  LaterPollDone =>
    \A v \in coordinators_by_vin :
      (\E m \in Fetched :
         /\ m.messageType = "323"
         /\ m.vin = v
         /\ m.message_time > snapshot.last_message_ts)
        => \E c \in Range(RefreshCalls) : c.msg.vin = v

\* C5: when the server holds N messages, one call of get_all_alarm_messages
\* makes at most N+1 page requests, whatever the watermark.
PaginationBounded ==
  snapshot.polled => Len(PageCalls) <= Len(snapshot.server) + 1

\* C5 witness: a poll went through the whole list of a full server and met
\* the empty page after it
PaginationReachedEmptyPage ==
  /\ snapshot.polled
  /\ Len(snapshot.server) = MaxServer
  /\ Len(PageCalls) = MaxServer + 1
  /\ PageCalls[MaxServer + 1].msg = NoMsg
  /\ ~PageCalls[MaxServer + 1].raised

\* C6 as claimed: pages 1, 2, 3, ... are requested in order, and a page is
\* requested only while no page before it raised, was empty or returned a
\* message whose message_time is at or before last_message_ts.
PaginationStopsAtOrBeforeWatermark ==
  snapshot.polled =>
    \A i \in 1..Len(PageCalls) :
      /\ PageCalls[i].page = i
      /\ \A j \in 1..(i - 1) :
           /\ ~PageCalls[j].raised
           /\ PageCalls[j].msg # NoMsg
           /\ PageCalls[j].msg.message_time > snapshot.last_message_ts

\* C6 amended: pages 1, 2, 3, ... are requested in order, and a page is
\* requested only while no page before it raised, was empty or returned a
\* message whose message_time is strictly before last_message_ts.
PaginationStopsBeforeWatermark ==
  snapshot.polled =>
    \A i \in 1..Len(PageCalls) :
      /\ PageCalls[i].page = i
      /\ \A j \in 1..(i - 1) :
           /\ ~PageCalls[j].raised
           /\ PageCalls[j].msg # NoMsg
           /\ PageCalls[j].msg.message_time >= snapshot.last_message_ts

\* C6 witness: a page returned a message dated exactly at the watermark and
\* the next page was requested; the poll stopped at an older message
PaginationPassedWatermarkMessage ==
  /\ snapshot.polled
  /\ snapshot.last_message_ts > DatetimeMin
  /\ \E j \in 1..(Len(PageCalls) - 1) :
       PageCalls[j].msg.message_time = snapshot.last_message_ts
  /\ PageCalls[Len(PageCalls)].msg # NoMsg
  /\ PageCalls[Len(PageCalls)].msg.message_time < snapshot.last_message_ts

\* C7: after any sequence of async_setup_entry and async_unload_entry calls at
\* most one periodic message-check timer is registered.
SingleMessageHandler == timers <= 1

\* C7 witness: two vehicles are set up next to an entry that was unloaded, and
\* one timer runs
TwoEntriesOneHandler ==
  /\ timers = 1
  /\ Cardinality(loaded) >= 2
  /\ \E e \in Entries \ loaded : CoordinatorKey(e) \in hass_data

\* C8: once the only remaining entry is unloaded successfully, the services
\* are unloaded: no entry is loaded only when no service is registered.
ServicesUnloadedWithLastEntry == loaded = {} => ~services_registered

\* the newest vehicle start messages among the fetched ones
NewestVehicleStart ==
  LET starts == {m \in Fetched : m.messageType = "323"}
  IN {m \in starts : \A o \in starts : o.message_time <= m.message_time}

\* C9: a poll never deletes the newest vehicle start message it fetched: of
\* the fetched type-"323" messages with the greatest message_time one is kept.
LatestVehicleStartKept ==
  (snapshot.polled /\ NewestVehicleStart # {}) =>
    \E m \in NewestVehicleStart :
      \A c \in Range(DeleteCalls) : c.msg.messageId # m.messageId

\* C10: delete_message is only called for a type-"323" message fetched in the
\* current poll whose id is not None and differs from last_message_id.
DeleteFrame ==
  \A c \in Range(DeleteCalls) :
    /\ c.msg.messageType = "323"
    /\ c.msg \in Fetched
    /\ c.msg.messageId # None
    /\ c.msg.messageId # last_message_id

\* C10 witness: a poll deleted a stale vehicle start message and left a
\* fetched message of another type alone
StaleVehicleStartDeleted ==
  /\ snapshot.polled
  /\ DeleteCalls # <<>>
  /\ \E m \in Fetched : m.messageType # "323"

\* -------- C11: the first call sets the baseline silently: a poll that runs
\* while first_call is True requests no refresh, no message that was on the
\* server at the first poll that fetched successfully causes a refresh in a
\* later poll, and first_call turns False only at the end of a poll whose fetch
\* succeeded and never turns True again.
FirstCallSetsBaselineSilently ==
  snapshot.polled =>
    /\ snapshot.first_call => RefreshCalls = <<>>
    /\ \A c \in Range(RefreshCalls) : MessageKey(c.msg) \notin baseline
    /\ first_call = (snapshot.first_call /\ ~snapshot.fetched)

\* the fetched messages in the order of their pages
FetchedSeq ==
  LET pages == SelectSeq(PageCalls, LAMBDA c : ~c.raised /\ c.msg # NoMsg)
  IN [i \in 1..Len(pages) |-> pages[i].msg]

\* the messages the calls of op were issued for, in the order of the calls
MessagesOf(op) == [i \in 1..Len(CallsOf(op)) |-> CallsOf(op)[i].msg]

\* -------- C12: in every poll whose fetch succeeds, client.read_message is
\* called exactly once for each fetched message whose read_status is not
\* "read" and whose id is not None, and for no message whose read_status is
\* "read".
MarkReadCoverage ==
  (snapshot.polled /\ snapshot.fetched) =>
    MessagesOf("read_message") =
      SelectSeq(FetchedSeq, LAMBDA m : m.read_status # "read" /\ HasId(m))

\* a poll fetched a message that was read before and one that was not
ReadAndUnreadFetched ==
  /\ snapshot.polled /\ snapshot.fetched
  /\ \E m \in Fetched : m.read_status = "read"
  /\ MessagesOf("read_message") # <<>>

\* the place of a call in the text of check_for_new_messages
StepRank(op) ==
  CASE op = "get_alarm_list" -> 0
    [] op = "read_message" -> 1
    [] op = "compare" -> 2
    [] op = "async_request_refresh" -> 3
    [] op = "delete_message" -> 4

\* -------- C13: within one poll all mark-read calls are issued before the
\* watermark is compared and updated, the refresh request (if any) after the
\* watermark update, and every delete call after the refresh request.
StepsInOrder ==
  snapshot.polled =>
    \A i, j \in 1..Len(calls) :
      i < j => StepRank(calls[i].op) <= StepRank(calls[j].op)

\* a poll marked a message, advanced the watermark, refreshed and deleted
AllStepsTaken ==
  /\ snapshot.polled
  /\ MessagesOf("read_message") # <<>>
  /\ last_message_ts > snapshot.last_message_ts
  /\ RefreshCalls # <<>>
  /\ DeleteCalls # <<>>

\* a page request of the poll raised
PageRaised == \E c \in Range(PageCalls) : c.raised

\* -------- C14: if a page request raises during get_all_alarm_messages, on
\* the first or a later page, the poll issues no mark-read, delete or refresh
\* call and leaves last_message_id, last_message_ts and first_call as they
\* were; a failed first poll keeps first_call True.
FetchFailureLeavesState ==
  (snapshot.polled /\ PageRaised) =>
    /\ \A c \in Range(calls) :
         c.op \notin {"read_message", "delete_message", "async_request_refresh"}
    /\ last_message_id = snapshot.last_message_id
    /\ last_message_ts = snapshot.last_message_ts
    /\ first_call = snapshot.first_call
    /\ server = snapshot.server

\* the first poll failed on its second page, after an unread message came in
FirstPollFailedOnLaterPage ==
  /\ snapshot.polled /\ snapshot.first_call /\ first_call
  /\ \E c \in Range(PageCalls) : c.raised /\ c.page = 2
  /\ \E m \in Fetched : m.read_status # "read" /\ HasId(m)

\* a read_message, delete_message or async_request_refresh call raised
SideCallRaised ==
  \E c \in Range(calls) :
    c.raised /\ c.op \in {"read_message", "delete_message", "async_request_refresh"}

UniqueIds(srv) ==
  \A i, j \in 1..Len(srv) : i # j => srv[i].messageId # srv[j].messageId

\* -------- C16: when message ids are unique, after every poll whose fetch
\* succeeded last_message_ts is at least the message_time of every fetched
\* message, and last_message_id and last_message_ts are the id and the
\* timestamp of one and the same fetched message (None and datetime.min only
\* if no message was fetched).
WatermarkIsMaximumSeen ==
  (snapshot.polled /\ snapshot.fetched /\ UniqueIds(snapshot.server)) =>
    /\ \A m \in Fetched : last_message_ts >= m.message_time
    /\ \/ /\ last_message_id = snapshot.last_message_id
          /\ last_message_ts = snapshot.last_message_ts
          /\ Fetched = {} \/ last_message_ts # DatetimeMin
       \/ \E m \in Fetched :
            m.messageId = last_message_id /\ m.message_time = last_message_ts

\* the list is ordered newest first
NewestFirst(srv) ==
  \A i, j \in 1..Len(srv) : i < j => srv[i].message_time >= srv[j].message_time

OverlappingPollsSafe ==
  /\ [](\A k \in RefreshKeys : refresh_count[k] <= 1)
  /\ [][last_message_ts' >= last_message_ts]_vars

\* both polls are past the comparison, both found the same message the
\* latest, and one of them requested the refresh for it
SameLatestInBothPolls ==
  /\ \A t \in Tasks : tasks[t].pc \in {"refresh", "delete"}
  /\ tasks["poll1"].latest_message = tasks["poll2"].latest_message
  /\ tasks["poll1"].latest_message # NoMsg
  /\ refresh_count[MessageKey(tasks["poll1"].latest_message)] = 1

====
